---- MODULE Spec2Model ----
(***************************************************************************)
(* Bulk-generation orchestrator of src/App.tsx (handleGenerate, worker,    *)
(* handleStopGeneration) together with the cancellation behaviour of the   *)
(* two generation services (geminiService.generateArticle and              *)
(* deepseekService.generateArticleDeepSeek).                               *)
(*                                                                         *)
(* The JavaScript event loop is modelled by the variable running: while a  *)
(* task holds it, only that task steps (synchronous code runs to the next  *)
(* await); user events and provider completions need an idle loop: no     *)
(* task running and no continuation waiting in the microtask queue.        *)
(***************************************************************************)
EXTENDS Integers, Sequences, FiniteSets, TLC

\* ---------------------------------------------------------------- bounds
MaxBatches == 2
MaxTopics == 2
MaxPoolTopics == 6

\* ------------------------------------------------------ program constants
CONCURRENCY_LIMIT == 5
InternalLinkSlice == 3

Batches == 1..MaxBatches
\* worker(i) closures a batch can have: Array(Math.min(N, CONCURRENCY_LIMIT)).
Slots == 1..CONCURRENCY_LIMIT
None == <<0, 0>>

TopicNames == {"A", "B"}

\* queueTopics as built by the form: trimmed non-empty lines (possibly none,
\* duplicates allowed). Lists are taken up to renaming: the first is "A".
TopicLists ==
  {<<>>} \cup
  {ts \in UNION {[1..n -> TopicNames] : n \in 1..MaxTopics} : ts[1] = "A"}

\* -------------------------------------------------------------- config
NoConfig ==
  [provider |-> "GEMINI", deepResearch |-> FALSE, realTimeData |-> FALSE,
   websiteUrl |-> FALSE, autoOptimize |-> FALSE, researchProvider |-> "unset",
   keywordAnalysisProvider |-> "unset", searchProvider |-> "unset",
   enableExternalLinks |-> FALSE, internalLinks |-> <<>>]

\* Plain generation, no research stage at all (pool of min(N, 5)).
PlainConfigs ==
  {[NoConfig EXCEPT !.provider = p] : p \in {"GEMINI", "DEEPSEEK"}}

\* Internal links selected in the form (config.internalLinks).
ManualLinks == <<91, 92>>

\* Auto-SEO pipeline with a brand website: keyword, link and generation
\* stages, with the Gemini scanner, the Tavily scanner (and links selected in
\* the form) and no scanner.
AutoConfigs ==
  {[NoConfig EXCEPT !.provider = "GEMINI", !.autoOptimize = TRUE,
                    !.websiteUrl = TRUE],
   [NoConfig EXCEPT !.provider = "DEEPSEEK", !.autoOptimize = TRUE,
                    !.websiteUrl = TRUE, !.researchProvider = "TAVILY",
                    !.internalLinks = ManualLinks],
   [NoConfig EXCEPT !.provider = "DEEPSEEK", !.autoOptimize = TRUE,
                    !.websiteUrl = TRUE]}

\* Research inside the generation call (DeepSeek: the serial policy).
ResearchConfigs ==
  {[NoConfig EXCEPT !.provider = p, !.websiteUrl = TRUE, !.deepResearch = d,
                    !.realTimeData = ~d, !.searchProvider = s] :
     p \in {"GEMINI", "DEEPSEEK"}, d \in BOOLEAN, s \in {"TAVILY", "SERPSTACK"}}

\* Serial policy with the keyword and external-link stages.
SerialAutoConfigs ==
  {[NoConfig EXCEPT !.provider = "DEEPSEEK", !.autoOptimize = TRUE,
                    !.realTimeData = TRUE, !.enableExternalLinks = TRUE]}

Configs ==
  PlainConfigs \cup AutoConfigs \cup ResearchConfigs \cup SerialAutoConfigs

\* What the form hands to handleGenerate: a config with its queueTopics.
Inputs == Configs \X TopicLists

\* Inputs for the termination check: topic lists without a repeated topic
\* (a repeated one goes through the same steps as a second, different one).
LiveInputs == Configs \X {ts \in TopicLists : Len(ts) < 2 \/ ts[1] # ts[2]}

\* Inputs of a session in which the form is submitted again (while the
\* earlier batch is running, after a stop, or after it has returned): the
\* submissions have at most one topic, the later ones the plain config.
ShortLists == {ts \in TopicLists : Len(ts) <= 1}
FirstInputs == Configs \X ShortLists
AgainInputs == {NoConfig} \X ShortLists

\* Inputs with up to MaxPoolTopics topics, more than CONCURRENCY_LIMIT.
PoolLists == {[i \in 1..n |-> "A"] : n \in 1..MaxPoolTopics}
PoolInputs == Configs \X PoolLists

\* ------------------------------------------------------------ state
VARIABLES
  isGenerating,        \* useState(false)
  generatedArticles,   \* useState<GeneratedArticle[]>
  error,               \* useState<string | null>
  bulkProgress,        \* useState({completed, total})
  activeTasks,         \* useState<number>
  abortControllerRef,  \* useRef<AbortController | null>: 0 or a batch id
  config,              \* handleGenerate's argument, per batch
  topics,              \* const topics = config.queueTopics || []
  aborted,             \* controller.signal.aborted, per batch
  mainpc,              \* position of handleGenerate, per batch
  queue,               \* const queue = [...topics] (positions of topics)
  completedCount,      \* let completedCount = 0
  cachedBrandResearch, \* "undefined" | "empty" | "content"
  cachedInternalLinks, \* list of links
  workers,             \* the worker(i) closures, per batch and slot
  running,             \* the task that holds the event loop, or None
  calls,               \* provider calls issued so far, per batch and kind
  lateCalls,           \* kinds of calls issued while the token was set
  popLog,              \* positions returned by queue.shift(), in pop order
  atCancel             \* what was reported / in flight when the token was set

vars ==
  <<isGenerating, generatedArticles, error, bulkProgress, activeTasks,
    abortControllerRef, config, topics, aborted, mainpc, queue,
    completedCount, cachedBrandResearch, cachedInternalLinks, workers,
    running, calls, lateCalls, popLog, atCancel>>

inputVars == <<config, topics>>
cacheVars == <<cachedBrandResearch, cachedInternalLinks>>
callVars == <<calls, lateCalls>>

CallKinds ==
  {"brand", "linkScan", "keyword", "extScan", "realTime", "siteArch", "generate"}

Min(a, b) == IF a < b THEN a ELSE b

NoWorker ==
  [pc |-> "unspawned", pos |-> 0, pKw |-> "config", nKw |-> "config",
   links |-> <<>>, ext |-> 0, armed |-> FALSE, err |-> "none",
   genLate |-> FALSE, content |-> 0, wait |-> 0]

NotCancelled == [set |-> FALSE, reported |-> 0, popped |-> 0, inflight |-> {}]

Init ==
  /\ isGenerating = FALSE
  /\ generatedArticles = <<>>
  /\ error = "null"
  /\ bulkProgress = [completed |-> 0, total |-> 0]
  /\ activeTasks = 0
  /\ abortControllerRef = 0
  /\ config = [b \in Batches |-> NoConfig]
  /\ topics = [b \in Batches |-> <<>>]
  /\ aborted = [b \in Batches |-> FALSE]
  /\ mainpc = [b \in Batches |-> "idle"]
  /\ queue = [b \in Batches |-> <<>>]
  /\ completedCount = [b \in Batches |-> 0]
  /\ cachedBrandResearch = [b \in Batches |-> "undefined"]
  /\ cachedInternalLinks = [b \in Batches |-> <<>>]
  /\ workers = [b \in Batches |-> [w \in Slots |-> NoWorker]]
  /\ running = None
  /\ calls = [b \in Batches |-> [k \in CallKinds |-> 0]]
  /\ lateCalls = [b \in Batches |-> {}]
  /\ popLog = [b \in Batches |-> <<>>]
  /\ atCancel = [b \in Batches |-> NotCancelled]

\* ------------------------------------------------------------ helpers
\* A step that pops nothing.
NoPop == UNCHANGED popLog

\* Places in the microtask queue that are taken: a worker whose await got an
\* already rejected promise holds the place wait (1 is the head).
Waiting == {workers[b][w].wait : b \in Batches, w \in Slots} \ {0}

\* The event loop takes the next macrotask (a user event, a timer, a
\* provider completion) only when nothing runs and no microtask is queued.
Idle == running = None /\ Waiting = {}

\* A provider call of kind k is issued by batch b.
Call(b, k) ==
  /\ calls' = [calls EXCEPT ![b][k] = @ + 1]
  /\ lateCalls' = IF aborted[b] THEN [lateCalls EXCEPT ![b] = @ \cup {k}]
                  ELSE lateCalls

\* Positions of batch b that are popped and not yet through finally.
InPipeline(b) ==
  {workers[b][w].pos : w \in {s \in Slots : workers[b][s].pos # 0}}

EntriesOf(b) == SelectSeq(generatedArticles, LAMBDA e : e.batch = b)

\* Mutant of AbortSignal: abort() leaves the token unset.
AbortSignalNoop(b) == UNCHANGED <<aborted, atCancel>>

\* controller.abort(): sets the token; remembers what was in flight.
AbortSignal(b) ==
  /\ aborted' = [aborted EXCEPT ![b] = TRUE]
  /\ atCancel' =
       IF aborted[b] \/ mainpc[b] \in {"idle", "done"} THEN atCancel
       ELSE [atCancel EXCEPT ![b] =
               [set |-> TRUE, reported |-> Len(EntriesOf(b)),
                popped |-> Len(popLog[b]), inflight |-> InPipeline(b)]]

isDeepSeekWebMode(c) ==
  c.provider = "DEEPSEEK" /\ (c.deepResearch \/ c.realTimeData)

\* Mutant of ConcurrencyLimit: the serial policy is dropped.
ConcurrencyLimitAlwaysFive(c) == CONCURRENCY_LIMIT

\* Lines 245-252: let CONCURRENCY_LIMIT = 5, forced to 1 in DeepSeek web mode.
ConcurrencyLimit(c) == IF isDeepSeekWebMode(c) THEN 1 ELSE CONCURRENCY_LIMIT

PoolSize(b) == Min(Len(topics[b]), ConcurrencyLimit(config[b]))

\* Result of an internal-link scan seeded with the topic at position seed.
ScanResults(seed) ==
  {<<>>, <<10 * seed + 1, 10 * seed + 2, 10 * seed + 3, 10 * seed + 4>>}

\* Mutant of Slice: the whole list is taken.
SliceAll(s, n) == s

\* Array.prototype.slice(0, n).
Slice(s, n) == SubSeq(s, 1, Min(Len(s), n))


\* =================================================== handleGenerate (bulk)
Spawned(b) == Cardinality({w \in Slots : workers[b][w].pc # "unspawned"})

\* Mutant of AllExited: Promise.all never settles.
AllExitedNever(b, except) == FALSE

AllExited(b, except) ==
  \A w \in (1..PoolSize(b)) \ except : workers[b][w].pc = "exit"

\* Mutant of NoTopics: the empty list is let through.
NoTopicsNever(ts) == FALSE

\* Line 239: if (topics.length === 0) throw new Error(...).
NoTopics(ts) == Len(ts) = 0

\* Line 239: the message of the input error, as set by line 445.
NoTopicsError == "No topics provided for bulk generation"

\* Lines 191-255: abort the registered controller, register a new one, seed
\* the queue. An empty topic list throws and runs the catch and the finally.
Start(b, inputs) ==
  /\ mainpc[b] = "idle"
  /\ Idle
  /\ \A o \in Batches : o < b => mainpc[o] # "idle"
  /\ NoPop
  /\ \E inp \in inputs : LET c == inp[1]  ts == inp[2] IN
       /\ config' = [config EXCEPT ![b] = c]
       /\ topics' = [topics EXCEPT ![b] = ts]
       /\ IF abortControllerRef # 0 THEN AbortSignal(abortControllerRef)
          ELSE UNCHANGED <<aborted, atCancel>>
       /\ IF NoTopics(ts)
          THEN /\ error' = NoTopicsError
               /\ isGenerating' = FALSE
               /\ abortControllerRef' = 0
               /\ bulkProgress' = [completed |-> 0, total |-> 0]
               /\ activeTasks' = 0
               /\ mainpc' = [mainpc EXCEPT ![b] = "done"]
               /\ running' = None
               /\ UNCHANGED <<queue, completedCount>>
          ELSE /\ error' = "null"
               /\ isGenerating' = TRUE
               /\ abortControllerRef' = b
               /\ bulkProgress' = [completed |-> 0, total |-> Len(ts)]
               /\ queue' = [queue EXCEPT ![b] = [i \in 1..Len(ts) |-> i]]
               /\ completedCount' = [completedCount EXCEPT ![b] = 0]
               /\ mainpc' = [mainpc EXCEPT ![b] = "prefetchBrand"]
               /\ running' = <<b, 0>>
               /\ UNCHANGED activeTasks
  /\ UNCHANGED <<generatedArticles, cacheVars, workers, callVars>>

\* Lines 259-263: the brand pre-fetch starts with a dynamic import (an await).
PrefetchBrand(b) ==
  /\ running = <<b, 0>>
  /\ NoPop
  /\ mainpc[b] = "prefetchBrand"
  /\ IF config[b].deepResearch /\ config[b].websiteUrl
        /\ config[b].provider = "DEEPSEEK"
     THEN /\ mainpc' = [mainpc EXCEPT ![b] = "brandImport"]
          /\ running' = None
     ELSE /\ mainpc' = [mainpc EXCEPT ![b] = "prefetchLinks"]
          /\ UNCHANGED running
  /\ UNCHANGED <<isGenerating, generatedArticles, error, bulkProgress,
                 activeTasks, abortControllerRef, inputVars, aborted, queue,
                 completedCount, cacheVars, workers, callVars, atCancel>>

\* Lines 264-266: getTavilyApiKey() reads localStorage; with a key the crawl
\* is issued.
BrandImportDone(b) ==
  /\ mainpc[b] = "brandImport"
  /\ Idle
  /\ NoPop
  /\ \E key \in BOOLEAN :
       IF key
       THEN /\ Call(b, "brand")
            /\ mainpc' = [mainpc EXCEPT ![b] = "brandCall"]
            /\ UNCHANGED running
       ELSE /\ mainpc' = [mainpc EXCEPT ![b] = "prefetchLinks"]
            /\ running' = <<b, 0>>
            /\ UNCHANGED callVars
  /\ UNCHANGED <<isGenerating, generatedArticles, error, bulkProgress,
                 activeTasks, abortControllerRef, inputVars, aborted, queue,
                 completedCount, cacheVars, workers, atCancel>>

\* Lines 266-270: the crawl returns an analysis (possibly with empty content)
\* or the try block throws and the cache stays undefined.
BrandCallDone(b) ==
  /\ mainpc[b] = "brandCall"
  /\ Idle
  /\ NoPop
  /\ \E r \in {"content", "empty", "undefined"} :
       cachedBrandResearch' = [cachedBrandResearch EXCEPT ![b] = r]
  /\ mainpc' = [mainpc EXCEPT ![b] = "prefetchLinks"]
  /\ running' = <<b, 0>>
  /\ UNCHANGED <<isGenerating, generatedArticles, error, bulkProgress,
                 activeTasks, abortControllerRef, inputVars, aborted, queue,
                 completedCount, cachedInternalLinks, workers, callVars,
                 atCancel>>

\* Which internal-link scanner lines 278-286 / 345-353 choose.
LinkScanner(c) ==
  IF c.provider = "DEEPSEEK" /\ c.researchProvider = "TAVILY" THEN "tavily"
  ELSE IF c.provider = "GEMINI" \/ c.researchProvider = "GEMINI" THEN "gemini"
  ELSE "none"

\* Whether a link scan can raise. scanForInternalLinks (geminiService)
\* catches its errors and returns an empty list; scanForInternalLinksTavily
\* (services/tavilyService, imported at App.tsx 75) can fail, the failure
\* the link stage is written to survive.
ScanMayThrow(c) == LinkScanner(c) = "tavily"

\* Lines 273-286: pre-scan of internal links, seeded with the first topic.
PrefetchLinks(b) ==
  /\ running = <<b, 0>>
  /\ NoPop
  /\ mainpc[b] = "prefetchLinks"
  /\ IF config[b].websiteUrl /\ config[b].autoOptimize
        /\ LinkScanner(config[b]) # "none"
     THEN /\ Call(b, "linkScan")
          /\ mainpc' = [mainpc EXCEPT ![b] = "linkPrefetch"]
          /\ running' = None
     ELSE /\ mainpc' = [mainpc EXCEPT ![b] = "spawn"]
          /\ UNCHANGED <<running, callVars>>
  /\ UNCHANGED <<isGenerating, generatedArticles, error, bulkProgress,
                 activeTasks, abortControllerRef, inputVars, aborted, queue,
                 completedCount, cacheVars, workers, atCancel>>

\* Lines 279-289: the scan returns links, or (Tavily scanner) throws and the
\* catch leaves the cache empty.
LinkPrefetchDone(b) ==
  /\ mainpc[b] = "linkPrefetch"
  /\ Idle
  /\ NoPop
  /\ \/ \E r \in ScanResults(1) :
          cachedInternalLinks' = [cachedInternalLinks EXCEPT ![b] = r]
     \/ /\ ScanMayThrow(config[b])
        /\ UNCHANGED cachedInternalLinks
  /\ mainpc' = [mainpc EXCEPT ![b] = "spawn"]
  /\ running' = <<b, 0>>
  /\ UNCHANGED <<isGenerating, generatedArticles, error, bulkProgress,
                 activeTasks, abortControllerRef, inputVars, aborted, queue,
                 completedCount, cachedBrandResearch, workers, callVars,
                 atCancel>>

\* Lines 435-437: worker(i) is called and runs to its first await.
SpawnWorker(b) ==
  /\ running = <<b, 0>>
  /\ NoPop
  /\ mainpc[b] = "spawn"
  /\ Spawned(b) < PoolSize(b)
  /\ workers' = [workers EXCEPT ![b][Spawned(b) + 1].pc = "loop"]
  /\ running' = <<b, Spawned(b) + 1>>
  /\ UNCHANGED <<isGenerating, generatedArticles, error, bulkProgress,
                 activeTasks, abortControllerRef, inputVars, aborted, mainpc,
                 queue, completedCount, cacheVars, callVars, atCancel>>

\* Line 439: await Promise.all(workers).
AwaitAll(b) ==
  /\ running = <<b, 0>>
  /\ NoPop
  /\ mainpc[b] = "spawn"
  /\ Spawned(b) = PoolSize(b)
  /\ IF AllExited(b, {})
     THEN /\ mainpc' = [mainpc EXCEPT ![b] = "finally"]
          /\ UNCHANGED running
     ELSE /\ mainpc' = [mainpc EXCEPT ![b] = "join"]
          /\ running' = None
  /\ UNCHANGED <<isGenerating, generatedArticles, error, bulkProgress,
                 activeTasks, abortControllerRef, inputVars, aborted, queue,
                 completedCount, cacheVars, workers, callVars, atCancel>>

\* Lines 447-455: only the batch whose controller is still registered resets.
\* Mutant of StillRegistered: the cleanup runs whoever is registered.
StillRegisteredAlways(b) == TRUE

\* Line 448: if (abortControllerRef.current === controller).
StillRegistered(b) == abortControllerRef = b

Finally(b) ==
  /\ running = <<b, 0>>
  /\ NoPop
  /\ mainpc[b] = "finally"
  /\ IF StillRegistered(b)
     THEN /\ isGenerating' = FALSE
          /\ abortControllerRef' = 0
          /\ bulkProgress' = [completed |-> 0, total |-> 0]
          /\ activeTasks' = 0
     ELSE UNCHANGED <<isGenerating, abortControllerRef, bulkProgress,
                      activeTasks>>
  /\ mainpc' = [mainpc EXCEPT ![b] = "done"]
  /\ running' = None
  /\ UNCHANGED <<generatedArticles, error, inputVars, aborted, queue,
                 completedCount, cacheVars, workers, callVars, atCancel>>

\* Lines 458-466: handleStopGeneration.
handleStopGeneration ==
  /\ Idle
  /\ NoPop
  /\ abortControllerRef # 0
  /\ AbortSignal(abortControllerRef)
  /\ abortControllerRef' = 0
  /\ isGenerating' = FALSE
  /\ bulkProgress' = [completed |-> 0, total |-> 0]
  /\ activeTasks' = 0
  /\ UNCHANGED <<generatedArticles, error, inputVars, mainpc, queue,
                 completedCount, cacheVars, workers, running, callVars>>


\* ================================================================= worker
W(b, w) == workers[b][w]

\* State no worker step writes.
wFrame ==
  <<isGenerating, error, abortControllerRef, config, topics, aborted,
    cachedBrandResearch, cachedInternalLinks, atCancel>>

\* A worker reaching an await hands the event loop back: to handleGenerate
\* while it is still inside the .map() that starts the workers.
Release(b) == IF mainpc[b] = "spawn" THEN <<b, 0>> ELSE None

\* A worker step that touches only its own locals.
Local(b, w, rec, run) ==
  /\ workers' = [workers EXCEPT ![b][w] = rec]
  /\ running' = run
  /\ NoPop
  /\ UNCHANGED <<wFrame, generatedArticles, bulkProgress, activeTasks,
                 mainpc, queue, completedCount>>

Throw(b, w, e) == [W(b, w) EXCEPT !.err = e, !.pc = "catch"]

\* The generation call throws before its first await: the worker's await
\* gets a rejected promise and its catch is queued as a microtask.
Rejected(rec, e) ==
  [rec EXCEPT !.err = e, !.pc = "catch", !.wait = Cardinality(Waiting) + 1]

\* The microtask at the head of the queue runs.
Resume(b, w) ==
  /\ running = None
  /\ W(b, w).wait = 1
  /\ workers' = [c \in Batches |-> [v \in Slots |->
                   IF workers[c][v].wait > 0
                   THEN [workers[c][v] EXCEPT !.wait = @ - 1]
                   ELSE workers[c][v]]]
  /\ running' = <<b, w>>
  /\ NoPop
  /\ UNCHANGED <<wFrame, generatedArticles, bulkProgress, activeTasks,
                 mainpc, queue, completedCount, callVars>>

\* Mutant of ShiftRest: the head is read but left in the queue.
ShiftRestPeek(q) == q

\* queue.shift(): the value returned and the queue left behind.
ShiftHead(q) == Head(q)
ShiftRest(q) == Tail(q)

\* The worker's promise settles; when it was the last one, Promise.all
\* settles and handleGenerate resumes in the same turn of the event loop.
WorkerReturns(b, w) ==
  /\ workers' = [workers EXCEPT ![b][w] = [W(b, w) EXCEPT !.pc = "exit",
                                                        !.pos = 0]]
  /\ IF mainpc[b] = "join" /\ AllExited(b, {w})
     THEN /\ mainpc' = [mainpc EXCEPT ![b] = "finally"]
          /\ running' = <<b, 0>>
     ELSE /\ UNCHANGED mainpc
          /\ running' = Release(b)

\* Mutants of LoopGuard: the last topic is never taken; the token is not
\* consulted.
LoopGuardOffByOne(qlen, isAborted) == qlen > 1 /\ ~isAborted
LoopGuardNoAbort(qlen, isAborted) == qlen > 0

\* Line 295: while (queue.length > 0 && !controller.signal.aborted).
LoopGuard(qlen, isAborted) == qlen > 0 /\ ~isAborted

\* Lines 295-310: loop guard, pop, setActiveTasks, optional delay.
WorkerLoop(b, w) ==
  /\ running = <<b, w>>
  /\ W(b, w).pc = "loop"
  /\ IF LoopGuard(Len(queue[b]), aborted[b])
     THEN /\ queue' = [queue EXCEPT ![b] = ShiftRest(@)]
          /\ popLog' = [popLog EXCEPT ![b] = Append(@, ShiftHead(queue[b]))]
          /\ activeTasks' = activeTasks + 1
          /\ IF isDeepSeekWebMode(config[b])
             THEN /\ workers' = [workers EXCEPT ![b][w] =
                       [NoWorker EXCEPT !.pc = "delay",
                                        !.pos = ShiftHead(queue[b])]]
                  /\ running' = Release(b)
             ELSE /\ workers' = [workers EXCEPT ![b][w] =
                       [NoWorker EXCEPT !.pc = "try",
                                        !.pos = ShiftHead(queue[b])]]
                  /\ UNCHANGED running
          /\ UNCHANGED mainpc
     ELSE /\ WorkerReturns(b, w)
          /\ UNCHANGED <<queue, activeTasks, popLog>>
  /\ UNCHANGED <<wFrame, generatedArticles, bulkProgress, completedCount,
                 callVars>>

\* Line 309: the 2 s timer fires.
DelayDone(b, w) ==
  /\ W(b, w).pc = "delay"
  /\ Idle
  /\ Local(b, w, [W(b, w) EXCEPT !.pc = "try"], <<b, w>>)
  /\ UNCHANGED callVars

\* Lines 322-323: which keyword functions are used.
KeywordFns(c) ==
  LET keywordProvider ==
        IF c.keywordAnalysisProvider # "unset" THEN c.keywordAnalysisProvider
        ELSE IF c.provider = "DEEPSEEK" THEN "TAVILY" ELSE "GEMINI"
  IN IF keywordProvider = "TAVILY" \/ c.provider = "DEEPSEEK"
     THEN "deepseek" ELSE "gemini"

\* Mutant of KeywordResults: every call returns the keywords of the first
\* topic.
KeywordResultsOfFirst(c, pos) == {1}

\* Keywords a keyword call returns for the topic at pos: the generated list
\* (pos) or, for the Gemini functions, the empty list of their catch (-1).
\* 0 stands for the keywords of the batch config.
KeywordResults(c, pos) ==
  IF KeywordFns(c) = "gemini" THEN {pos, -1} ELSE {pos}

\* Mutant of AutoOptimize: the pipeline runs whatever the flag says.
AutoOptimizeAlways(c) == TRUE

\* Line 319: if (config.autoOptimize).
AutoOptimize(c) == c.autoOptimize

\* Lines 313-329: per-topic locals, then the primary keyword call.
TryStart(b, w) ==
  /\ running = <<b, w>>
  /\ W(b, w).pc = "try"
  /\ LET r == [W(b, w) EXCEPT !.pKw = 0, !.nKw = 0,
                              !.links = config[b].internalLinks, !.ext = 0]
     IN IF AutoOptimize(config[b])
        THEN /\ Call(b, "keyword")
             /\ Local(b, w, [r EXCEPT !.pc = "kwPrimary"], Release(b))
        ELSE /\ Local(b, w, [r EXCEPT !.pc = "gen"], running)
             /\ UNCHANGED callVars

\* Lines 324-332: primary keywords arrive and the NLP call is issued, or the
\* DeepSeek function throws and the catch swallows it.
KwPrimaryDone(b, w) ==
  /\ W(b, w).pc = "kwPrimary"
  /\ Idle
  /\ \/ \E k \in KeywordResults(config[b], W(b, w).pos) :
          /\ Call(b, "keyword")
          /\ Local(b, w, [W(b, w) EXCEPT !.pKw = k, !.pc = "kwNLP"], None)
     \/ /\ KeywordFns(config[b]) = "deepseek"
        /\ Local(b, w, [W(b, w) EXCEPT !.pc = "links"], <<b, w>>)
        /\ UNCHANGED callVars

\* Lines 325-332: NLP keywords arrive, or the call throws.
KwNLPDone(b, w) ==
  /\ W(b, w).pc = "kwNLP"
  /\ Idle
  /\ \/ \E k \in KeywordResults(config[b], W(b, w).pos) :
          Local(b, w, [W(b, w) EXCEPT !.nKw = k, !.pc = "links"], <<b, w>>)
     \/ /\ KeywordFns(config[b]) = "deepseek"
        /\ Local(b, w, [W(b, w) EXCEPT !.pc = "links"], <<b, w>>)
  /\ UNCHANGED callVars

\* Mutant of UseCachedLinks: the cache is used even when it is empty.
UseCachedLinksAlways(cached) == TRUE

\* Mutant of UseCachedLinks: the cache is used only above a threshold that no
\* scan reaches.
UseCachedLinksAboveFive(cached) == Len(cached) > 5

\* Line 338: if (cachedInternalLinks.length > 0).
UseCachedLinks(cached) == Len(cached) > 0

\* Lines 337-358: cached links if any, else a per-topic scan.
LinkStage(b, w) ==
  /\ running = <<b, w>>
  /\ W(b, w).pc = "links"
  /\ IF ~config[b].websiteUrl
     THEN /\ Local(b, w, [W(b, w) EXCEPT !.pc = "ext"], running)
          /\ UNCHANGED callVars
     ELSE IF UseCachedLinks(cachedInternalLinks[b])
     THEN /\ Local(b, w,
                   [W(b, w) EXCEPT
                      !.links = Slice(cachedInternalLinks[b], InternalLinkSlice),
                      !.pc = "ext"], running)
          /\ UNCHANGED callVars
     ELSE IF LinkScanner(config[b]) # "none"
     THEN /\ Call(b, "linkScan")
          /\ Local(b, w, [W(b, w) EXCEPT !.pc = "linkScan"], Release(b))
     ELSE /\ Local(b, w, [W(b, w) EXCEPT !.links = <<>>, !.pc = "ext"],
                   running)
          /\ UNCHANGED callVars

\* Lines 346-356: the per-topic scan returns, or (Tavily scanner) throws and
\* the catch keeps the links the topic already had.
LinkScanDone(b, w) ==
  /\ W(b, w).pc = "linkScan"
  /\ Idle
  /\ \/ \E r \in ScanResults(W(b, w).pos) :
          Local(b, w, [W(b, w) EXCEPT !.links = Slice(r, InternalLinkSlice),
                                      !.pc = "ext"], <<b, w>>)
     \/ /\ ScanMayThrow(config[b])
        /\ Local(b, w, [W(b, w) EXCEPT !.pc = "ext"], <<b, w>>)
  /\ UNCHANGED callVars

\* Lines 361-380: external link scan.
ExtStage(b, w) ==
  /\ running = <<b, w>>
  /\ W(b, w).pc = "ext"
  /\ IF config[b].enableExternalLinks
     THEN /\ Call(b, "extScan")
          /\ Local(b, w, [W(b, w) EXCEPT !.pc = "extScan"], Release(b))
     ELSE /\ Local(b, w, [W(b, w) EXCEPT !.pc = "gen"], running)
          /\ UNCHANGED callVars

\* Lines 371-376: both scanners swallow their errors and return a list.
ExtScanDone(b, w) ==
  /\ W(b, w).pc = "extScan"
  /\ Idle
  /\ \E n \in {0, 5} :
       Local(b, w, [W(b, w) EXCEPT !.ext = n, !.pc = "gen"], <<b, w>>)
  /\ UNCHANGED callVars


\* ============================================ generateWithFallback and
\* the entry of generateArticle / generateArticleDeepSeek
\* App.tsx 385-398, 173-189; geminiService 442-508; deepseekService 240-244.
GenStart(b, w) ==
  /\ running = <<b, w>>
  /\ W(b, w).pc = "gen"
  /\ LET r == [W(b, w) EXCEPT !.genLate = aborted[b]]
     IN IF config[b].provider = "DEEPSEEK"
        THEN \* getApiKey() reads localStorage: missing key throws an Error
             /\ \E key \in BOOLEAN :
                  IF key
                  THEN Local(b, w, [r EXCEPT !.pc = "dResearch"], running)
                  ELSE Local(b, w, Rejected(r, "Error"), Release(b))
             /\ UNCHANGED callVars
        ELSE IF aborted[b]
        THEN /\ Local(b, w, Rejected(r, "AbortError"), Release(b))
             /\ UNCHANGED callVars
        ELSE \* isGeminiSelected() / getGenAI() may throw; rethrown as Error
             \/ /\ Local(b, w, Rejected(r, "Error"), Release(b))
                /\ UNCHANGED callVars
             \/ IF config[b].realTimeData
                THEN /\ Call(b, "realTime")
                     /\ Local(b, w, [r EXCEPT !.pc = "gRealTime"], Release(b))
                ELSE /\ Local(b, w, [r EXCEPT !.pc = "gAfterRealTime"],
                            running)
                     /\ UNCHANGED callVars

\* ------------------------------------------------ geminiService.ts
\* Lines 478-508: the real-time fetch returns (its helpers never throw).
GeminiRealTimeDone(b, w) ==
  /\ W(b, w).pc = "gRealTime"
  /\ Idle
  /\ Local(b, w, [W(b, w) EXCEPT !.pc = "gAfterRealTime"], <<b, w>>)
  /\ UNCHANGED callVars

\* Lines 510-526: abort check, then the site-architecture fetch.
GeminiAfterRealTime(b, w) ==
  /\ running = <<b, w>>
  /\ W(b, w).pc = "gAfterRealTime"
  /\ IF aborted[b]
     THEN /\ Local(b, w, Rejected(W(b, w), "AbortError"), Release(b))
          /\ UNCHANGED callVars
     ELSE IF config[b].deepResearch /\ config[b].websiteUrl
     THEN /\ Call(b, "siteArch")
          /\ Local(b, w, [W(b, w) EXCEPT !.pc = "gSiteArch"], Release(b))
     ELSE /\ Local(b, w, [W(b, w) EXCEPT !.pc = "gExecute"], running)
          /\ UNCHANGED callVars

\* Line 522: fetchSiteArchitecture returns (it swallows its errors).
GeminiSiteArchDone(b, w) ==
  /\ W(b, w).pc = "gSiteArch"
  /\ Idle
  /\ Local(b, w, [W(b, w) EXCEPT !.pc = "gExecute"], <<b, w>>)
  /\ UNCHANGED callVars

\* addEventListener('abort', ...) on a signal: the listener will fire only
\* if the signal is not aborted yet.
ListenerArmed(isAborted) == ~isAborted

\* Lines 733-756: executeGeneration issues the request and races it against
\* the abort event.
GeminiExecute(b, w) ==
  /\ running = <<b, w>>
  /\ W(b, w).pc = "gExecute"
  /\ Call(b, "generate")
  /\ Local(b, w, [W(b, w) EXCEPT !.armed = ListenerArmed(aborted[b]),
                                 !.pc = "gRace"], Release(b))

\* The race is already lost to the abort event.
RaceAborted(b, w) == W(b, w).armed /\ aborted[b]

\* Lines 756, 768, 774-790: the request resolves first.
GeminiRaceResolve(b, w) ==
  /\ W(b, w).pc \in {"gRace", "gRaceFlash"}
  /\ Idle
  /\ ~RaceAborted(b, w)
  /\ Local(b, w, [W(b, w) EXCEPT !.content = W(b, w).pos, !.pc = "report"],
           <<b, w>>)
  /\ UNCHANGED callVars

\* Lines 757-772, 791-798: the request rejects first. With the token set the
\* provider error is rethrown, and the outer catch turns it into an Error;
\* a quota error falls back to the flash model.
GeminiRaceReject(b, w) ==
  /\ W(b, w).pc = "gRace"
  /\ Idle
  /\ ~RaceAborted(b, w)
  /\ IF aborted[b]
     THEN /\ Local(b, w, Throw(b, w, "Error"), <<b, w>>)
          /\ UNCHANGED callVars
     ELSE \/ /\ Call(b, "generate")
             /\ Local(b, w, [W(b, w) EXCEPT !.armed = ListenerArmed(aborted[b]),
                                            !.pc = "gRaceFlash"], None)
          \/ /\ Local(b, w, Throw(b, w, "Error"), <<b, w>>)
             /\ UNCHANGED callVars

\* Lines 768, 791-798: the fallback request rejects.
GeminiFlashReject(b, w) ==
  /\ W(b, w).pc = "gRaceFlash"
  /\ Idle
  /\ ~RaceAborted(b, w)
  /\ Local(b, w, Throw(b, w, "Error"), <<b, w>>)
  /\ UNCHANGED callVars

\* Lines 746-750, 758, 792-794: the abort listener rejects the race.
GeminiRaceAbort(b, w) ==
  /\ W(b, w).pc \in {"gRace", "gRaceFlash"}
  /\ Idle
  /\ RaceAborted(b, w)
  /\ Local(b, w, Throw(b, w, "AbortError"), <<b, w>>)
  /\ UNCHANGED callVars

\* ------------------------------------------------ deepseekService.ts
\* Lines 408-427: brand research unless the cached analysis has content.
DeepSeekResearch(b, w) ==
  /\ running = <<b, w>>
  /\ W(b, w).pc = "dResearch"
  /\ IF /\ config[b].deepResearch /\ config[b].websiteUrl
        /\ cachedBrandResearch[b] # "content"
        /\ config[b].researchProvider \in {"TAVILY", "unset"}
     THEN Local(b, w, [W(b, w) EXCEPT !.pc = "dBrandImport"], Release(b))
     ELSE Local(b, w, [W(b, w) EXCEPT !.pc = "dRealTimeStage"], running)
  /\ UNCHANGED callVars

\* Lines 427-430: after the import, the crawl is issued when a key is stored.
DeepSeekBrandImportDone(b, w) ==
  /\ W(b, w).pc = "dBrandImport"
  /\ Idle
  /\ \E key \in BOOLEAN :
       IF key
       THEN /\ Call(b, "brand")
            /\ Local(b, w, [W(b, w) EXCEPT !.pc = "dBrand"], None)
       ELSE /\ Local(b, w, [W(b, w) EXCEPT !.pc = "dRealTimeStage"], <<b, w>>)
            /\ UNCHANGED callVars

\* Lines 430-447: the crawl returns or throws; either way the call goes on.
DeepSeekBrandDone(b, w) ==
  /\ W(b, w).pc = "dBrand"
  /\ Idle
  /\ Local(b, w, [W(b, w) EXCEPT !.pc = "dRealTimeStage"], <<b, w>>)
  /\ UNCHANGED callVars

\* Lines 464-500: real-time data through Tavily or SERPStack, each behind a
\* dynamic import.
DeepSeekRealTime(b, w) ==
  /\ running = <<b, w>>
  /\ W(b, w).pc = "dRealTimeStage"
  /\ IF config[b].realTimeData
        /\ config[b].searchProvider \in {"TAVILY", "SERPSTACK"}
     THEN Local(b, w, [W(b, w) EXCEPT !.pc = "dRtImport"], Release(b))
     ELSE Local(b, w, [W(b, w) EXCEPT !.pc = "dFetchStart"], running)
  /\ UNCHANGED callVars

\* Lines 470-474, 487-488: Tavily needs a stored key, SERPStack is called.
DeepSeekRtImportDone(b, w) ==
  /\ W(b, w).pc = "dRtImport"
  /\ Idle
  /\ \/ /\ Call(b, "realTime")
        /\ Local(b, w, [W(b, w) EXCEPT !.pc = "dRealTime"], None)
     \/ /\ config[b].searchProvider = "TAVILY"
        /\ Local(b, w, [W(b, w) EXCEPT !.pc = "dFetchStart"], <<b, w>>)
        /\ UNCHANGED callVars

\* Lines 474-486, 488-490: the search returns (its helpers never throw).
DeepSeekRealTimeDone(b, w) ==
  /\ W(b, w).pc = "dRealTime"
  /\ Idle
  /\ Local(b, w, [W(b, w) EXCEPT !.pc = "dFetchStart"], <<b, w>>)
  /\ UNCHANGED callVars

\* Lines 622-632: fetch(url, {signal}); an aborted signal rejects at once.
DeepSeekFetch(b, w) ==
  /\ running = <<b, w>>
  /\ W(b, w).pc = "dFetchStart"
  /\ IF aborted[b]
     THEN /\ Local(b, w, Rejected(W(b, w), "AbortError"), Release(b))
          /\ UNCHANGED callVars
     ELSE /\ Call(b, "generate")
          /\ Local(b, w, [W(b, w) EXCEPT !.pc = "dFetch"], Release(b))

\* Lines 622-667: the response arrives (ok with its body, an HTTP error whose
\* body is still to be read, or a network error), or the abort rejects it.
DeepSeekFetchDone(b, w) ==
  /\ W(b, w).pc = "dFetch"
  /\ Idle
  /\ IF aborted[b]
     THEN Local(b, w, Throw(b, w, "AbortError"), <<b, w>>)
     ELSE \/ Local(b, w, [W(b, w) EXCEPT !.content = W(b, w).pos,
                                         !.pc = "report"], <<b, w>>)
          \/ Local(b, w, [W(b, w) EXCEPT !.pc = "dErrBody"], None)
          \/ Local(b, w, Throw(b, w, "Error"), <<b, w>>)
  /\ UNCHANGED callVars

\* Lines 634-651: response.json().catch(() => ({})) swallows any rejection of
\* the body read, then an Error is thrown.
DeepSeekErrBodyDone(b, w) ==
  /\ W(b, w).pc = "dErrBody"
  /\ Idle
  /\ Local(b, w, Throw(b, w, "Error"), <<b, w>>)
  /\ UNCHANGED callVars


\* ================================================= report, catch, finally
\* Line 421: `Error generating content: ${err.message}`; a completed entry
\* holds the position whose article the generation call returned.
ErrorContent == 0

\* Mutant of Entry: the topic is read from a variable shared by the workers
\* (the last topic popped) instead of the iteration's own const.
EntrySharedTopic(b, w, st) ==
  LET last == popLog[b][Len(popLog[b])] IN
  [batch |-> b, pos |-> last, title |-> topics[b][last],
   status |-> st,
   content |-> IF st = "completed" THEN W(b, w).content ELSE ErrorContent,
   primaryKeywords |-> W(b, w).pKw, nlpKeywords |-> W(b, w).nKw,
   internalLinks |-> W(b, w).links, externalLinksCount |-> W(b, w).ext,
   late |-> aborted[b], genLate |-> W(b, w).genLate]

\* A GeneratedArticle of the result list. late and genLate record whether
\* the token was set when the entry was appended / the generation started.
Entry(b, w, st) ==
  [batch |-> b, pos |-> W(b, w).pos, title |-> topics[b][W(b, w).pos],
   status |-> st,
   content |-> IF st = "completed" THEN W(b, w).content ELSE ErrorContent,
   primaryKeywords |-> W(b, w).pKw, nlpKeywords |-> W(b, w).nKw,
   internalLinks |-> W(b, w).links, externalLinksCount |-> W(b, w).ext,
   late |-> aborted[b], genLate |-> W(b, w).genLate]

\* Mutant of SilentError: the catch lets provider errors pass silently.
SilentErrorAny == "Error"

\* The name of the error the worker's catch lets pass without an entry.
SilentError == "AbortError"

\* Lines 400-413: setGeneratedArticles(prev => [...prev, completed entry]).
\* Mutant of AppendEntry: the new entry goes to the front of the list.
PrependEntry(prev, entry) == <<entry>> \o prev

\* Lines 400, 418: setGeneratedArticles(prev => [...prev, entry]).
AppendEntry(prev, entry) == Append(prev, entry)

Report(b, w) ==
  /\ running = <<b, w>>
  /\ NoPop
  /\ W(b, w).pc = "report"
  /\ generatedArticles' =
       AppendEntry(generatedArticles, Entry(b, w, "completed"))
  /\ workers' = [workers EXCEPT ![b][w].pc = "finally"]
  /\ UNCHANGED <<wFrame, bulkProgress, activeTasks, mainpc, queue,
                 completedCount, running, callVars>>

\* Lines 415-425: an AbortError returns, any other error appends a failed
\* entry.
Catch(b, w) ==
  /\ running = <<b, w>>
  /\ NoPop
  /\ W(b, w).pc = "catch"
  /\ IF W(b, w).err = SilentError
     THEN /\ workers' = [workers EXCEPT ![b][w].pc = "finallyReturn"]
          /\ UNCHANGED generatedArticles
     ELSE /\ generatedArticles' =
               AppendEntry(generatedArticles, Entry(b, w, "failed"))
          /\ workers' = [workers EXCEPT ![b][w].pc = "finally"]
  /\ UNCHANGED <<wFrame, bulkProgress, activeTasks, mainpc, queue,
                 completedCount, running, callVars>>

\* Lines 426-430, then the loop or the return of the catch.
WorkerFinally(b, w) ==
  /\ running = <<b, w>>
  /\ NoPop
  /\ W(b, w).pc \in {"finally", "finallyReturn"}
  /\ completedCount' = [completedCount EXCEPT ![b] = @ + 1]
  /\ bulkProgress' = [bulkProgress EXCEPT !.completed = completedCount[b] + 1]
  /\ activeTasks' = activeTasks - 1
  /\ IF W(b, w).pc = "finally"
     THEN /\ workers' = [workers EXCEPT ![b][w] =
                           [W(b, w) EXCEPT !.pc = "loop", !.pos = 0]]
          /\ UNCHANGED <<mainpc, running>>
     ELSE WorkerReturns(b, w)
  /\ UNCHANGED <<wFrame, generatedArticles, queue, callVars>>

\* ================================================================ system
MainStep(b) ==
  \/ PrefetchBrand(b)
  \/ BrandImportDone(b)
  \/ BrandCallDone(b)
  \/ PrefetchLinks(b)
  \/ LinkPrefetchDone(b)
  \/ SpawnWorker(b)
  \/ AwaitAll(b)
  \/ Finally(b)

PipelineStep(b, w) ==
  \/ Resume(b, w)
  \/ WorkerLoop(b, w)
  \/ DelayDone(b, w)
  \/ TryStart(b, w)
  \/ KwPrimaryDone(b, w)
  \/ KwNLPDone(b, w)
  \/ LinkStage(b, w)
  \/ LinkScanDone(b, w)
  \/ ExtStage(b, w)
  \/ ExtScanDone(b, w)
  \/ GenStart(b, w)
  \/ Report(b, w)
  \/ Catch(b, w)
  \/ WorkerFinally(b, w)

GeminiStep(b, w) ==
  \/ GeminiRealTimeDone(b, w)
  \/ GeminiAfterRealTime(b, w)
  \/ GeminiSiteArchDone(b, w)
  \/ GeminiExecute(b, w)
  \/ GeminiRaceResolve(b, w)
  \/ GeminiRaceReject(b, w)
  \/ GeminiFlashReject(b, w)
  \/ GeminiRaceAbort(b, w)

DeepSeekStep(b, w) ==
  \/ DeepSeekResearch(b, w)
  \/ DeepSeekBrandImportDone(b, w)
  \/ DeepSeekBrandDone(b, w)
  \/ DeepSeekRealTime(b, w)
  \/ DeepSeekRtImportDone(b, w)
  \/ DeepSeekRealTimeDone(b, w)
  \/ DeepSeekFetch(b, w)
  \/ DeepSeekFetchDone(b, w)
  \/ DeepSeekErrBodyDone(b, w)

\* The steps the event loop takes by itself: continuations of handleGenerate
\* and of the workers, timers and provider completions.
Steps ==
  \/ \E b \in Batches : MainStep(b)
  \/ \E b \in Batches, w \in Slots : PipelineStep(b, w)
  \/ \E b \in Batches, w \in Slots : GeminiStep(b, w)
  \/ \E b \in Batches, w \in Slots : DeepSeekStep(b, w)

\* Every step but the submission of the form.
Run == handleStopGeneration \/ Steps

\* One submission of the form on a fresh page.
Next == Start(1, Inputs) \/ Run

Spec == Init /\ [][Next]_vars

\* The event loop runs every task that is ready, and every timer and
\* provider call that is pending eventually completes.
NextLive == Start(1, LiveInputs) \/ Run

LiveSpec == Init /\ [][NextLive]_vars /\ WF_vars(Steps)

\* The form is submitted up to MaxBatches times.
NextAgain ==
  \/ Start(1, FirstInputs)
  \/ \E b \in Batches \ {1} : Start(b, AgainInputs)
  \/ Run

SpecAgain == Init /\ [][NextAgain]_vars

\* One submission with up to MaxPoolTopics topics, followed through the
\* pre-fetch and the turn of the event loop in which the workers are
\* started: each worker runs to its first await.
NextPool ==
  \/ Start(1, PoolInputs)
  \/ handleStopGeneration
  \/ \E b \in Batches : MainStep(b)
  \/ \E b \in Batches, w \in Slots :
        \/ WorkerLoop(b, w)
        \/ TryStart(b, w)
        \/ GenStart(b, w)
        \/ GeminiAfterRealTime(b, w)
        \/ GeminiExecute(b, w)
        \/ DeepSeekResearch(b, w)
        \/ DeepSeekRealTime(b, w)
        \/ DeepSeekFetch(b, w)

SpecPool == Init /\ [][NextPool]_vars


\* ================================================================ claims
Entries(b) == EntriesOf(b)

PositionsOf(b) == {Entries(b)[i].pos : i \in 1..Len(Entries(b))}

TitlesOf(b) == {Entries(b)[i].title : i \in 1..Len(Entries(b))}

EntriesAt(b, pos) ==
  Cardinality({i \in 1..Len(Entries(b)) : Entries(b)[i].pos = pos})

\* handleGenerate has returned from a bulk run with a non-empty topic list.
Returned(b) == mainpc[b] = "done" /\ Len(topics[b]) > 0

\* C1: a bulk run over N >= 1 topics that is never cancelled has, when it
\* returns, added exactly N entries to the result list, one for each
\* position of the input list (completed or failed).
C1_ExactlyNEntries ==
  \A b \in Batches :
    (Returned(b) /\ ~aborted[b]) =>
      /\ Len(Entries(b)) = Len(topics[b])
      /\ PositionsOf(b) = 1..Len(topics[b])

C1_Witness ==
  \E b \in Batches :
    /\ Returned(b) /\ ~aborted[b]
    /\ topics[b] = <<"A", "A">>
    /\ PoolSize(b) = 2
    /\ Len(Entries(b)) = 2
    /\ {Entries(b)[i].status : i \in 1..2} = {"completed", "failed"}

\* C2: no queue position is ever returned by two pops, whatever the
\* interleaving of the workers; so an uncancelled run over N distinct
\* topics ends with N distinct topics in the result list.
C2_NoDoublePop ==
  \A b \in Batches :
    /\ \A i, j \in 1..Len(popLog[b]) : i # j => popLog[b][i] # popLog[b][j]
    /\ (/\ Returned(b) /\ ~aborted[b]
        /\ \A i, j \in 1..Len(topics[b]) : i # j => topics[b][i] # topics[b][j])
       => Cardinality(TitlesOf(b)) = Len(topics[b])

C2_Witness ==
  \E b \in Batches :
    /\ Returned(b) /\ ~aborted[b]
    /\ topics[b] = <<"A", "B">>
    /\ PoolSize(b) = 2
    /\ popLog[b] = <<1, 2>>
    /\ TitlesOf(b) = {"A", "B"}

\* C3 as claimed: in every batch the brand-research fetch and the
\* internal-link scan are each issued at most once, whatever the pre-fetch
\* returned.
C3_AtMostOnceAlways ==
  \A b \in Batches : calls[b]["brand"] <= 1 /\ calls[b]["linkScan"] <= 1

\* C3 amended: the batch-level pre-fetch issues each of the two fetches at
\* most once; when the pre-scan left a non-empty link list no further link
\* scan is issued, and when the pre-fetch left brand research with content
\* no further brand fetch is issued; otherwise each popped topic issues at
\* most one more fetch of each kind.
C3_AtMostOnceWhenCached ==
  \A b \in Batches :
    /\ Spawned(b) = 0 => (calls[b]["brand"] <= 1 /\ calls[b]["linkScan"] <= 1)
    /\ Len(cachedInternalLinks[b]) > 0 => calls[b]["linkScan"] = 1
    /\ cachedBrandResearch[b] = "content" => calls[b]["brand"] = 1
    /\ calls[b]["linkScan"] <= 1 + Len(popLog[b])
    /\ calls[b]["brand"] <= 1 + Len(popLog[b])

C3_Witness ==
  \E b \in Batches :
    /\ Returned(b) /\ ~aborted[b]
    /\ PoolSize(b) = 2
    /\ Len(cachedInternalLinks[b]) > 0
    /\ calls[b]["linkScan"] = 1
    /\ Len(Entries(b)) = 2
    /\ \A i \in 1..2 :
         Entries(b)[i].internalLinks =
           Slice(cachedInternalLinks[b], InternalLinkSlice)

\* C4: when the token is set before any worker has popped a topic (also
\* while a pre-fetch is pending), the batch appends no entry and no worker
\* ever pops: every worker leaves its loop at the first guard.
C4_CancelBeforeFirstPop ==
  \A b \in Batches :
    (atCancel[b].set /\ atCancel[b].popped = 0) =>
      /\ popLog[b] = <<>>
      /\ Entries(b) = <<>>
      /\ \A w \in Slots :
           W(b, w).pc \in {"unspawned", "loop", "exit"} /\ W(b, w).pos = 0
      /\ mainpc[b] = "done" =>
           \A w \in 1..PoolSize(b) : W(b, w).pc = "exit"

C4_Witness ==
  \E b \in Batches :
    /\ atCancel[b].set /\ atCancel[b].popped = 0
    /\ mainpc[b] = "done"
    /\ PoolSize(b) = 2
    /\ Spawned(b) = 2
    /\ calls[b]["linkScan"] = 1

\* C5 as claimed: a batch cancelled when K of its N topics were reported
\* ends with between K and N-1 entries, and every entry appended after the
\* cancel is for a topic that was in flight at the cancel.
C5_BetweenKAndNMinus1 ==
  \A b \in Batches :
    (atCancel[b].set /\ mainpc[b] = "done") =>
      /\ atCancel[b].reported <= Len(Entries(b))
      /\ Len(Entries(b)) <= Len(topics[b]) - 1
      /\ \A i \in 1..Len(Entries(b)) :
           Entries(b)[i].late => Entries(b)[i].pos \in atCancel[b].inflight

\* C6: a generation call that fails while the batch is not cancelled gives
\* its topic exactly one entry, failed, with the error message as content;
\* the batch goes on, every topic ends with exactly one entry, and the
\* batch-level error stays unset (it is read while the batch is the latest
\* one started: a later handleGenerate writes the same error field).
C6_FailureIsolated ==
  \A b \in Batches :
    /\ \A w \in Slots :
         (W(b, w).pc = "finally" /\ W(b, w).err = "Error" /\ ~aborted[b]) =>
           /\ generatedArticles[Len(generatedArticles)].status = "failed"
           /\ generatedArticles[Len(generatedArticles)].pos = W(b, w).pos
           /\ generatedArticles[Len(generatedArticles)].content = ErrorContent
           /\ EntriesAt(b, W(b, w).pos) = 1
    /\ (Returned(b) /\ ~aborted[b]) =>
         /\ (\A o \in Batches : o > b => mainpc[o] = "idle") => error = "null"
         /\ \A pos \in 1..Len(topics[b]) : EntriesAt(b, pos) = 1

C6_Witness ==
  \E b \in Batches :
    /\ Returned(b) /\ ~aborted[b]
    /\ error = "null"
    /\ Len(topics[b]) = 2
    /\ Len(Entries(b)) = 2
    /\ Entries(b)[1].status = "failed"
    /\ Entries(b)[1].content = ErrorContent
    /\ Entries(b)[2].status = "completed"

\* C7 as claimed: a generation call that was in flight when the token was
\* set and then raises never yields a failed entry.
C7_NoFailedAfterCancel ==
  \A i \in 1..Len(generatedArticles) :
    ~(/\ generatedArticles[i].status = "failed"
      /\ generatedArticles[i].late
      /\ ~generatedArticles[i].genLate)

\* C8 as claimed: a topic that had not reached the report stage when the
\* token was set yields no entry at all.
C8_NoEntryAfterCancel ==
  \A i \in 1..Len(generatedArticles) : ~generatedArticles[i].late

\* C9 as claimed: once the token is set the batch issues no new provider
\* call of any kind.
C9_NoCallAfterCancel ==
  \A b \in Batches : lateCalls[b] = {}

\* C10: once the token is set no worker of the batch pops again (the queue
\* keeps its length and content), and a worker that evaluates its loop
\* guard returns.
C10_NoPopAfterCancel ==
  [][\A b \in Batches :
       aborted[b] =>
         /\ queue'[b] = queue[b]
         /\ popLog'[b] = popLog[b]
         /\ \A w \in Slots :
              (workers[b][w].pc = "loop" /\ workers'[b][w].pc # "loop")
                => workers'[b][w].pc = "exit"]_vars

C10_Witness ==
  \E b \in Batches, w \in Slots :
    /\ aborted[b]
    /\ Len(queue[b]) > 0
    /\ Len(popLog[b]) > 0
    /\ W(b, w).pc = "exit"

\* C11 as claimed: every start registers a fresh, unset token, and no step
\* of a worker of an earlier batch changes the token, the progress counters,
\* the active-worker count or the generating flag of the batch started
\* after it, which is the one whose controller is registered.
C11_EarlierWorkersLeaveLaterBatch ==
  [][/\ \A b \in Batches :
          (mainpc[b] = "idle" /\ mainpc'[b] # "idle") => ~aborted'[b]
     /\ \A b, c \in Batches :
          (b < c /\ running[1] = b /\ running[2] > 0
             /\ abortControllerRef = c) =>
            /\ aborted'[c] = aborted[c]
            /\ bulkProgress' = bulkProgress
            /\ activeTasks' = activeTasks
            /\ isGenerating' = isGenerating]_vars

\* C12: a bulk start with an empty topic list sets the batch-level error
\* and returns in the same step with the generating flag, the progress and
\* the active count reset; it spawns no worker, issues no pre-fetch or
\* provider call and appends no entry, then or later.
C12_EmptyListIsInputError ==
  /\ [](\A b \in Batches :
          (mainpc[b] # "idle" /\ topics[b] = <<>>) =>
            /\ mainpc[b] = "done"
            /\ Spawned(b) = 0
            /\ \A k \in CallKinds : calls[b][k] = 0
            /\ Entries(b) = <<>>
            /\ popLog[b] = <<>>)
  /\ [][\A b \in Batches :
          (mainpc[b] = "idle" /\ mainpc'[b] # "idle" /\ topics'[b] = <<>>) =>
            /\ error' = NoTopicsError
            /\ ~isGenerating'
            /\ bulkProgress' = [completed |-> 0, total |-> 0]
            /\ activeTasks' = 0
            /\ abortControllerRef' = 0
            /\ generatedArticles' = generatedArticles
            /\ calls' = calls
            /\ workers' = workers]_vars

C12_Witness ==
  \E b \in Batches :
    /\ b > 1
    /\ mainpc[b] = "done" /\ topics[b] = <<>>
    /\ error = NoTopicsError
    /\ ~isGenerating
    /\ Len(generatedArticles) > 0

C14_ProgressMonotone ==
  [][\A b \in Batches :
       (/\ mainpc[b] \notin {"idle", "done"} /\ mainpc'[b] # "done"
        /\ aborted'[b] = aborted[b]) =>
         /\ bulkProgress'.completed >= bulkProgress.completed
         /\ completedCount'[b] # completedCount[b] =>
              /\ bulkProgress'.completed = bulkProgress.completed + 1
              /\ activeTasks' = activeTasks - 1]_vars

\* C15: when every pending timer and provider call completes, a started
\* batch returns; when it has returned no worker is active, every topic has
\* been reported (completed or failed) or the token is set, and without
\* cancellation the queue is empty and every topic was popped and reported.
C15_BatchReturns ==
  /\ \A b \in Batches : (mainpc[b] # "idle") ~> (mainpc[b] = "done")
  /\ [](\A b \in Batches :
          Returned(b) =>
            /\ \A w \in Slots : W(b, w).pc \in {"unspawned", "exit"}
            /\ InPipeline(b) = {}
            /\ \A pos \in 1..Len(topics[b]) :
                 EntriesAt(b, pos) >= 1 \/ aborted[b]
            /\ ~aborted[b] =>
                 /\ queue[b] = <<>>
                 /\ Len(popLog[b]) = Len(topics[b])
                 /\ activeTasks = 0)

C15_Witness ==
  \E b \in Batches :
    /\ Returned(b)
    /\ aborted[b]
    /\ Len(topics[b]) = 2
    /\ Len(queue[b]) = 1
    /\ Len(Entries(b)) = 1
    /\ \A w \in Slots : W(b, w).pc \in {"unspawned", "exit"}

\* C16: every completed entry holds the content the generation call
\* returned for its own topic (the call made for position pos returns
\* content pos) under that topic's title; an entry is failed only when the
\* generation call of its worker raised; so an uncancelled batch whose
\* generation calls all succeed returns with N completed entries, one per
\* topic, each with its own content.
C16_ContentPairedWithTopic ==
  /\ [](\A i \in 1..Len(generatedArticles) :
          LET e == generatedArticles[i] IN
            /\ e.title = topics[e.batch][e.pos]
            /\ e.status = "completed" => e.content = e.pos)
  /\ [](\A b \in Batches :
          (/\ Returned(b) /\ ~aborted[b]
           /\ \A i \in 1..Len(Entries(b)) : Entries(b)[i].status = "completed")
          => {Entries(b)[i].content : i \in 1..Len(Entries(b))}
               = 1..Len(topics[b]))
  /\ [][\A b \in Batches :
          (/\ Len(generatedArticles') = Len(generatedArticles) + 1
           /\ generatedArticles'[Len(generatedArticles')].batch = b
           /\ generatedArticles'[Len(generatedArticles')].status = "failed")
          => /\ running[1] = b /\ running[2] > 0
             /\ workers[b][running[2]].err = "Error"]_vars

C16_Witness ==
  \E b \in Batches :
    /\ Returned(b) /\ ~aborted[b]
    /\ topics[b] = <<"A", "B">>
    /\ Len(Entries(b)) = 2
    /\ Entries(b)[1].status = "completed" /\ Entries(b)[1].title = "B"
    /\ Entries(b)[1].content = 2
    /\ Entries(b)[2].status = "completed" /\ Entries(b)[2].title = "A"
    /\ Entries(b)[2].content = 1

\* C17: a pre-fetch that was attempted and left the cache empty (it raised
\* or returned nothing) is never fatal. The batch starts its min(N, L)
\* workers all the same; a worker that reaches the link stage with an empty
\* link cache issues its own scan, and one that reaches the brand stage of
\* the DeepSeek call without cached content takes the per-topic crawl (issued
\* when the Tavily key is stored); an entry is failed only when its
\* generation call raised, and an uncancelled batch returns with exactly one
\* entry per topic.
C17_PrefetchFailureNotFatal ==
  /\ [](\A b \in Batches :
          (mainpc[b] \in {"join", "finally", "done"} /\ Len(topics[b]) > 0) =>
            /\ Spawned(b) = Min(Len(topics[b]), ConcurrencyLimit(config[b]))
            /\ (Returned(b) /\ ~aborted[b]) =>
                 \A pos \in 1..Len(topics[b]) : EntriesAt(b, pos) = 1)
  /\ [][\A b \in Batches : \A w \in Slots :
          /\ (/\ running = <<b, w>> /\ workers[b][w].pc = "links"
              /\ calls[b]["linkScan"] >= 1 /\ cachedInternalLinks[b] = <<>>)
             => /\ workers'[b][w].pc = "linkScan"
                /\ calls'[b]["linkScan"] = calls[b]["linkScan"] + 1
          /\ (/\ running = <<b, w>> /\ workers[b][w].pc = "dResearch"
              /\ calls[b]["brand"] >= 1 /\ cachedBrandResearch[b] # "content")
             => workers'[b][w].pc = "dBrandImport"
          /\ (/\ workers[b][w].pc = "dBrandImport"
              /\ workers'[b][w].pc = "dBrand")
             => calls'[b]["brand"] = calls[b]["brand"] + 1
          /\ (workers[b][w].pc # "catch" /\ workers'[b][w].pc = "catch")
             => workers[b][w].pc \in
                  {"gen", "gAfterRealTime", "gRace", "gRaceFlash",
                   "dFetchStart", "dFetch", "dErrBody"}]_vars

C17_Witness ==
  \E b \in Batches :
    /\ Returned(b) /\ ~aborted[b]
    /\ PoolSize(b) = 2
    /\ cachedInternalLinks[b] = <<>>
    /\ calls[b]["linkScan"] = 3
    /\ Len(Entries(b)) = 2
    /\ \A i \in 1..2 :
         /\ Entries(b)[i].status = "completed"
         /\ Len(Entries(b)[i].internalLinks) = InternalLinkSlice

C19_WorkerSurvivesFailure ==
  [][\A b \in Batches : \A w \in Slots :
       /\ (workers[b][w].pc = "catch" /\ workers'[b][w].pc # "catch"
           /\ ~aborted[b]) =>
            /\ Len(generatedArticles') = Len(generatedArticles) + 1
            /\ generatedArticles'[Len(generatedArticles')].status = "failed"
            /\ generatedArticles'[Len(generatedArticles')].batch = b
            /\ generatedArticles'[Len(generatedArticles')].pos
                 = workers[b][w].pos
            /\ workers'[b][w].pc = "finally"
       /\ (workers[b][w].pc = "finally" /\ workers'[b][w].pc # "finally") =>
            workers'[b][w].pc = "loop"
       /\ (workers[b][w].pc = "loop" /\ workers'[b][w].pc # "loop"
           /\ queue[b] # <<>> /\ ~aborted[b]) =>
            /\ Len(popLog'[b]) = Len(popLog[b]) + 1
            /\ workers'[b][w].pos = queue[b][1]
       /\ (workers[b][w].pc # "exit" /\ workers'[b][w].pc = "exit") =>
            (queue[b] = <<>> \/ aborted[b])]_vars

C19_Witness ==
  \E b \in Batches :
    /\ ~aborted[b]
    /\ PoolSize(b) = 1
    /\ popLog[b] = <<1, 2>>
    /\ Len(Entries(b)) = 1
    /\ Entries(b)[1].status = "failed"
    /\ W(b, 1).pos = 2
    /\ W(b, 1).pc = "dFetch"

\* C20 as claimed: in every reachable state the active-worker count is
\* between 0 and the pool size of the batch that runs, also after cancel()
\* with tasks in flight.
C20_ActiveWithinPool ==
  /\ activeTasks >= 0
  /\ \A b \in Batches :
       (mainpc[b] \notin {"idle", "done"}) => activeTasks <= PoolSize(b)

\* C21 as claimed: a topic whose keyword stage raised (the DeepSeek keyword
\* functions raise; either call) goes on, and from its link stage to its
\* generation call it carries the keywords of the batch config in both
\* lists.
C21_KeywordFailureKeepsDefaults ==
  \A b \in Batches : \A w \in Slots :
    (/\ config[b].autoOptimize /\ KeywordFns(config[b]) = "deepseek"
     /\ W(b, w).pc \in {"links", "linkScan", "ext", "extScan", "gen"}
     /\ (W(b, w).pKw = 0 \/ W(b, w).nKw = 0))
    => (W(b, w).pKw = 0 /\ W(b, w).nKw = 0)

\* C22 as claimed: in the link stage a worker calls the scanner only when
\* the cache is empty, and the list a topic leaves its scan with is the
\* (sliced) list the scan returned or, when the scan failed, the empty list.
C22_ScanOnlyOnMissAndEmptyOnFailure ==
  [][\A b \in Batches : \A w \in Slots :
       /\ (W(b, w).pc = "links" /\ workers'[b][w].pc = "linkScan")
          => (cachedInternalLinks[b] = <<>>
              /\ calls'[b].linkScan = calls[b].linkScan + 1)
       /\ (W(b, w).pc = "linkScan" /\ workers'[b][w].pc = "ext")
          => workers'[b][w].links \in
               {<<>>} \cup {Slice(r, InternalLinkSlice) :
                              r \in ScanResults(W(b, w).pos)}]_vars

\* Stage of a topic at a worker position: 1 keyword, 2 link (internal and
\* external), 3 generation call, 4 report (success or catch), 5 finally;
\* 0 before the pipeline and between topics.
Stage(pc) ==
  CASE pc \in {"kwPrimary", "kwNLP"} -> 1
    [] pc \in {"links", "linkScan", "ext", "extScan"} -> 2
    [] pc \in {"gen", "gRealTime", "gAfterRealTime", "gSiteArch", "gExecute",
               "gRace", "gRaceFlash", "dResearch", "dBrandImport", "dBrand",
               "dRealTimeStage", "dRtImport", "dRealTime", "dFetchStart",
               "dFetch", "dErrBody"} -> 3
    [] pc \in {"report", "catch"} -> 4
    [] pc \in {"finally", "finallyReturn"} -> 5
    [] OTHER -> 0

\* C23: every topic goes through keyword, link, generation, report in that
\* order. A worker never steps back to an earlier stage of its topic; with
\* autoOptimize on the generation call is entered only from the end of the
\* link stage, with autoOptimize off straight from the start of the topic;
\* the report is entered only from the generation call, and an entry is
\* appended only by a worker in its report stage. Keyword, link-scan and
\* external-scan calls are issued only by batches with autoOptimize on.
C23_StagesInOrder ==
  [][\A b \in Batches :
       /\ \A w \in Slots :
            LET s == Stage(W(b, w).pc)
                t == Stage(workers'[b][w].pc)
            IN /\ t # s => (t > s \/ (s = 5 /\ t = 0))
               /\ (t = 1 /\ s # 1) => (W(b, w).pc = "try" /\ config[b].autoOptimize)
               /\ (t = 2 /\ s # 2) => s = 1
               /\ (t = 3 /\ s # 3) =>
                    IF config[b].autoOptimize
                    THEN W(b, w).pc \in {"ext", "extScan"}
                    ELSE W(b, w).pc = "try"
               /\ (t = 4 /\ s # 4) => s = 3
               /\ (t = 5 /\ s # 5) => s = 4
       /\ (\E k \in {"keyword", "linkScan", "extScan"} :
              calls'[b][k] # calls[b][k]) => config[b].autoOptimize
       /\ calls'[b].keyword # calls[b].keyword =>
            \E w \in Slots : /\ W(b, w).pc \in {"try", "kwPrimary"}
                             /\ Stage(workers'[b][w].pc) = 1
       /\ EntriesOf(b)' # EntriesOf(b) =>
            \E w \in Slots : /\ Stage(W(b, w).pc) = 4
                             /\ Stage(workers'[b][w].pc) = 5]_vars

\* C23 witness: a batch with autoOptimize on has issued both keyword calls
\* and a per-topic link scan and reported the topic as completed, and a
\* batch with autoOptimize off would have issued none.
C23_Witness ==
  \E b \in Batches :
    /\ config[b].autoOptimize
    /\ calls[b].keyword >= 2
    /\ \E i \in 1..Len(generatedArticles) :
         /\ generatedArticles[i].batch = b
         /\ generatedArticles[i].status = "completed"
         /\ generatedArticles[i].internalLinks # <<>>

\* C24: a popped topic has at most one entry, and a step changes the result
\* list only by appending one entry at its end: the entries already there,
\* of this batch or of an earlier one, stay where and what they were.
C24_ResultListAppendOnly ==
  /\ [](\A b \in Batches : \A p \in 1..MaxPoolTopics :
          EntriesAt(b, p) <= 1)
  /\ [][generatedArticles' # generatedArticles =>
          /\ Len(generatedArticles') = Len(generatedArticles) + 1
          /\ SubSeq(generatedArticles', 1, Len(generatedArticles))
               = generatedArticles]_vars

\* C24 witness: a later batch has appended its entry behind the entry of an
\* earlier batch.
C24_Witness ==
  /\ Len(generatedArticles) >= 2
  /\ generatedArticles[1].batch = 1
  /\ generatedArticles[Len(generatedArticles)].batch = 2

\* Positions at which a worker or handleGenerate waits for a provider call
\* it has issued (keyword, scan, research, real-time data, generation).
InFlight(b) ==
  Cardinality({w \in Slots : W(b, w).pc \in
                 {"kwPrimary", "kwNLP", "linkScan", "extScan", "gRealTime",
                  "gSiteArch", "gRace", "gRaceFlash", "dBrand", "dRealTime",
                  "dFetch", "dErrBody"}})
  + (IF mainpc[b] \in {"brandCall", "linkPrefetch"} THEN 1 ELSE 0)

\* C25: under the serial policy (DeepSeek with deep research or real-time
\* data) topics are popped in input order, a topic is in its delay or
\* pipeline only when every topic before it has its entry, entries are in
\* input order, at most one topic is in a worker and at most one provider
\* call of the batch is in flight.
C25_SerialInInputOrder ==
  \A b \in Batches :
    (mainpc[b] # "idle" /\ isDeepSeekWebMode(config[b])) =>
      /\ \A i \in 1..Len(popLog[b]) : popLog[b][i] = i
      /\ \A w \in Slots : \A q \in 1..MaxPoolTopics :
           (W(b, w).pos # 0 /\ q < W(b, w).pos) => EntriesAt(b, q) = 1
      /\ \A i, j \in 1..Len(Entries(b)) :
           i < j => Entries(b)[i].pos < Entries(b)[j].pos
      /\ Cardinality(InPipeline(b)) <= 1
      /\ InFlight(b) <= 1

\* C25 witness: a serial batch of two topics has reported the first topic
\* and waits for the generation call of the second.
C25_Witness ==
  \E b \in Batches : \E w \in Slots :
    /\ isDeepSeekWebMode(config[b])
    /\ Len(topics[b]) = 2
    /\ ~aborted[b]
    /\ Len(Entries(b)) = 1
    /\ W(b, w).pos = 2
    /\ W(b, w).pc = "dFetch"

\* C26: in a batch that is not cancelled, whenever the event loop is between
\* two steps, queue length + topics in a worker's pipeline + completed count
\* is the number of topics, and the completed count is the number of
\* entries the batch has appended.
C26_TopicsConserved ==
  \A b \in Batches :
    (mainpc[b] # "idle" /\ Len(topics[b]) > 0 /\ ~aborted[b]
     /\ running = None) =>
      /\ Len(queue[b]) + Cardinality(InPipeline(b)) + completedCount[b]
           = Len(topics[b])
      /\ completedCount[b] = Len(Entries(b))

\* C26 witness: between two steps, one topic is reported, one is in a
\* worker's pipeline and the batch is not cancelled.
C26_Witness ==
  \E b \in Batches :
    /\ running = None
    /\ ~aborted[b]
    /\ Len(topics[b]) = 2
    /\ completedCount[b] = 1
    /\ Cardinality(InPipeline(b)) = 1
    /\ Len(queue[b]) = 0

\* C27 as claimed: in every reachable state the progress shown satisfies
\* 0 <= completed <= total, also after handleStopGeneration has reset it
\* while workers of the cancelled batch are still finishing.
C27_ProgressWithinTotal ==
  /\ 0 <= bulkProgress.completed
  /\ bulkProgress.completed <= bulkProgress.total

\* Batches whose handleGenerate has started and not returned.
Unreturned == {b \in Batches : mainpc[b] \notin {"idle", "done"}}

\* C28: among the batches that have not returned at most one has an unset
\* cancellation token, and it is the registered one. A token is set only
\* for the batch registered at that moment (by cancel, or by the start of
\* the next batch, which registers its own fresh token in the same step);
\* with no batch registered no token and no registration changes except by
\* a start.
C28_OneUnsetToken ==
  /\ [](/\ Cardinality({b \in Unreturned : ~aborted[b]}) <= 1
        /\ \A b \in Unreturned : ~aborted[b] => abortControllerRef = b
        /\ abortControllerRef # 0 => ~aborted[abortControllerRef])
  /\ [][/\ \A b \in Batches :
             aborted'[b] # aborted[b] =>
               (abortControllerRef = b /\ aborted'[b]
                /\ abortControllerRef' # b)
        /\ (abortControllerRef' \notin {0, abortControllerRef}) =>
             /\ abortControllerRef # 0 => aborted'[abortControllerRef]
             /\ ~aborted'[abortControllerRef']
             /\ mainpc[abortControllerRef'] = "idle"]_vars

\* C28 witness: a batch was started while another was registered: the
\* earlier one is still running with its token set, the later one is
\* registered with its token unset.
C28_Witness ==
  /\ 1 \in Unreturned /\ aborted[1]
  /\ 2 \in Unreturned /\ ~aborted[2]
  /\ abortControllerRef = 2

\* C29: the end-of-batch cleanup of a batch that is no longer registered
\* (cancelled or superseded) leaves the generating flag, the registered
\* controller, the progress and the active count as they are; the cleanup
\* of the batch that is still registered resets all four.
C29_CleanupOnlyWhenRegistered ==
  [][\A b \in Batches :
       (mainpc[b] = "finally" /\ mainpc'[b] = "done") =>
         IF abortControllerRef = b
         THEN /\ ~isGenerating'
              /\ abortControllerRef' = 0
              /\ bulkProgress' = [completed |-> 0, total |-> 0]
              /\ activeTasks' = 0
         ELSE UNCHANGED <<isGenerating, abortControllerRef, bulkProgress,
                          activeTasks>>]_vars

\* C29 witness: a superseded batch has returned while the batch that
\* replaced it is still registered, generating and showing its progress.
C29_Witness ==
  /\ mainpc[1] = "done" /\ aborted[1] /\ Len(topics[1]) > 0
  /\ abortControllerRef = 2
  /\ isGenerating
  /\ 2 \in Unreturned
  /\ bulkProgress.total = Len(topics[2])

\* Keyword lists a topic at pos may carry: the config's (0), its own
\* generated list (pos) or the empty list of a swallowed Gemini failure (-1).
OwnKeywords(pos) == {0, -1, pos}

\* Internal-link lists a topic at pos of batch b may carry: the config's,
\* none, the batch's cached slice, or the slice of its own scan.
OwnLinks(b, pos) ==
  {config[b].internalLinks, <<>>,
   Slice(cachedInternalLinks[b], InternalLinkSlice)}
  \cup {Slice(r, InternalLinkSlice) : r \in ScanResults(pos)}

\* C30: processing a topic leaves the batch config and the cached research
\* unchanged and takes nothing from the queue but its own head; the
\* keywords and links a worker holds for its generation call, and those of
\* every entry, are the config's, the batch cache's, or the ones derived for
\* that very topic, never those derived for another topic (a failed entry
\* has no strategy).
C30_TopicLocalsStayLocal ==
  /\ [](\A b \in Batches :
          /\ \A w \in Slots :
               Stage(W(b, w).pc) \in {2, 3, 4} =>
                 /\ W(b, w).pKw \in OwnKeywords(W(b, w).pos)
                 /\ W(b, w).nKw \in OwnKeywords(W(b, w).pos)
                 /\ W(b, w).links \in OwnLinks(b, W(b, w).pos)
          /\ \A i \in 1..Len(Entries(b)) :
               Entries(b)[i].status = "completed" =>
               /\ Entries(b)[i].primaryKeywords \in OwnKeywords(Entries(b)[i].pos)
               /\ Entries(b)[i].nlpKeywords \in OwnKeywords(Entries(b)[i].pos)
               /\ Entries(b)[i].internalLinks \in OwnLinks(b, Entries(b)[i].pos))
  /\ [][\A b \in Batches :
          /\ Spawned(b) > 0 =>
               /\ config'[b] = config[b]
               /\ cachedBrandResearch'[b] = cachedBrandResearch[b]
               /\ cachedInternalLinks'[b] = cachedInternalLinks[b]
          /\ (Spawned(b) > 0 /\ queue'[b] # queue[b]) =>
               /\ queue'[b] = Tail(queue[b])
               /\ \E w \in Slots : workers'[b][w].pos = Head(queue[b])]_vars

\* C30 witness: two topics of one batch were reported with different
\* generated keywords and different scanned links, each its own.
C30_Witness ==
  \E b \in Batches :
    /\ Len(Entries(b)) = 2
    /\ cachedInternalLinks[b] = <<>>
    /\ \A i \in 1..2 :
         /\ Entries(b)[i].status = "completed"
         /\ Entries(b)[i].primaryKeywords = Entries(b)[i].pos
         /\ Entries(b)[i].nlpKeywords = Entries(b)[i].pos
         /\ Entries(b)[i].internalLinks =
              <<10 * Entries(b)[i].pos + 1, 10 * Entries(b)[i].pos + 2,
                10 * Entries(b)[i].pos + 3>>
    /\ Entries(b)[1].pos # Entries(b)[2].pos

====
